---- MODULE Spec2Model ----
(***************************************************************************)
(* A model of the healer Kafka client's response decoders and              *)
(* configuration objects:                                                  *)
(*   NewMetadataResponse      (src/unnamed/part_001)                       *)
(*   DecodeFetchResponse      (src/fetch_response.go)                      *)
(*   Broker/Consumer/Producer configuration (src/unnamed/part_000)         *)
(*                                                                         *)
(* Buffers are sequences of bytes (0..255); the decoders read them the way *)
(* encoding/binary's BigEndian does, with Go's bounds rules: an index or   *)
(* slice expression outside the slice is a run-time panic.                 *)
(***************************************************************************)
EXTENDS Integers, Sequences, FiniteSets

VARIABLES mIn, mOut, fIn, fOut, cc, lastCall, bc, shared, pc, pcErr

vars == <<mIn, mOut, fIn, fOut, cc, lastCall, bc, shared, pc, pcErr>>

\* ------------------------------------------------------------------ bounds
\* Longest topic list and longest partition list of the generated topology
\* responses; most messages of a generated fetch partition; most bytes cut
\* off the end of a generated fetch buffer.
MaxTopics == 2
MaxParts == 2
MaxMsgs == 2
MaxCut == 12

\* ------------------------------------------------------- Go slices of bytes
\* A []byte value: b holds the backing array from the slice's first element
\* to its capacity, n is len(payload).  cap(payload) = Len(b) >= n.
MkSlice(bytes) == [b |-> bytes, n |-> Len(bytes)]

\* payload[off:] followed by a k-byte big-endian read (or payload[off] for
\* k = 1): off <= len is needed for the slice expression, k bytes for the read.
CanRead(p, off, k) == off + k <= p.n

\* payload[lo:hi] on a slice: 0 <= lo <= hi <= cap(payload).
CanSlice(p, lo, hi) == lo <= hi /\ hi <= Len(p.b)

Slice(p, lo, hi) == SubSeq(p.b, lo + 1, hi)

RECURSIVE BigEndian(_, _, _, _)
\* Horner evaluation of k bytes starting at off, most significant first.
BigEndian(p, off, k, acc) ==
  IF k = 0 THEN acc ELSE BigEndian(p, off + 1, k - 1, acc * 256 + p.b[off + 1])

Uint16(p, off) == BigEndian(p, off, 2, 0)
Uint32(p, off) == BigEndian(p, off, 4, 0)

\* A signed read: the first byte is taken as a two's complement int8.
SignedBE(p, off, k) ==
  LET hi == p.b[off + 1]
  IN  BigEndian(p, off + 1, k - 1, IF hi >= 128 THEN hi - 256 ELSE hi)

Int8(p, off) == SignedBE(p, off, 1)
Int16(p, off) == SignedBE(p, off, 2)
Int32(p, off) == SignedBE(p, off, 4)
Int64(p, off) == SignedBE(p, off, 8)

\* The one element of a singleton set.  Only({e(r) : r \in {x}}) is
\* LET r == x IN e(r) with x evaluated once.
Only(S) == CHOOSE v \in S : TRUE

\* ------------------------------------------------------------------ errors
\* An error value.  kind "nil" is Go's nil error.
NilErr == [kind |-> "nil", code |-> 0, a |-> 0, b |-> 0]

\* The registry table, one error kind per index; index 0 is the generic
\* unknown kind.
MaxErrorIndex == 87
AllError(i) == [kind |-> "AllError", code |-> i, a |-> 0, b |-> 0]

\* Code 0 is no error, a recognised code has its own kind, any other code
\* has the generic unknown kind.
getErrorFromErrorCode(code) ==
  IF code = 0 THEN NilErr
  ELSE IF code \in 1..MaxErrorIndex THEN AllError(code)
  ELSE AllError(0)

LengthMismatch(want, got) ==
  [kind |-> "lengthMismatch", code |-> 0, a |-> want, b |-> got]

\* ------------------------------------------------------- NewMetadataResponse
PanicAt(off) == [panic |-> TRUE, off |-> off, v |-> <<>>, err |-> NilErr]

\* A decoder that never clears the benign kind.
trackError_keepBenign(err, code) ==
  IF err = NilErr /\ code /= 0 THEN getErrorFromErrorCode(code) ELSE err

\* The error bookkeeping done for each topic-level and partition-level code.
trackError(err, code) ==
  IF err = NilErr /\ code /= 0
  THEN LET e == getErrorFromErrorCode(code)
       IN  IF e = AllError(9) THEN NilErr ELSE e
  ELSE err

DecodeBroker(p, off) ==
  IF ~CanRead(p, off, 4) THEN PanicAt(off)
  ELSE IF ~CanRead(p, off + 4, 2) THEN PanicAt(off + 4)
  ELSE LET HostLength == Uint16(p, off + 4)
       IN  IF ~CanSlice(p, off + 6, off + 6 + HostLength) THEN PanicAt(off + 6)
           ELSE IF ~CanRead(p, off + 6 + HostLength, 4)
                THEN PanicAt(off + 6 + HostLength)
           ELSE [panic |-> FALSE, off |-> off + 6 + HostLength + 4,
                 v |-> [NodeId |-> Int32(p, off),
                        Host |-> Slice(p, off + 6, off + 6 + HostLength),
                        Port |-> Int32(p, off + 6 + HostLength)],
                 err |-> NilErr]

RECURSIVE DecodeBrokers(_, _, _, _)
DecodeBrokers(p, off, count, acc) ==
  IF Len(acc) = count
  THEN [panic |-> FALSE, off |-> off, v |-> acc, err |-> NilErr]
  ELSE Only({IF r.panic THEN r
             ELSE DecodeBrokers(p, r.off, count, Append(acc, r.v)) :
               r \in {DecodeBroker(p, off)}})

RECURSIVE DecodeInt32s(_, _, _, _)
\* The replicas and the isr loops: count int32 values.
DecodeInt32s(p, off, count, acc) ==
  IF Len(acc) = count
  THEN [panic |-> FALSE, off |-> off, v |-> acc, err |-> NilErr]
  ELSE IF ~CanRead(p, off, 4) THEN PanicAt(off)
  ELSE DecodeInt32s(p, off + 4, count, Append(acc, Int32(p, off)))

DecodePartition(p, off, err) ==
  IF ~CanRead(p, off, 2) THEN PanicAt(off)
  ELSE IF ~CanRead(p, off + 2, 4) THEN PanicAt(off + 2)
  ELSE IF ~CanRead(p, off + 6, 4) THEN PanicAt(off + 6)
  ELSE IF ~CanRead(p, off + 10, 4) THEN PanicAt(off + 10)
  ELSE Only({
    IF reps.panic THEN reps
    ELSE IF ~CanRead(p, reps.off, 4) THEN PanicAt(reps.off)
    ELSE Only({
      IF isr.panic THEN isr
      ELSE [panic |-> FALSE, off |-> isr.off,
            v |-> [PartitionErrorCode |-> Int16(p, off),
                   PartitionID |-> Int32(p, off + 2),
                   Leader |-> Int32(p, off + 6),
                   Replicas |-> reps.v,
                   Isr |-> isr.v],
            err |-> trackError(err, Int16(p, off))] :
        isr \in {DecodeInt32s(p, reps.off + 4, Uint32(p, reps.off), <<>>)}}) :
      reps \in {DecodeInt32s(p, off + 14, Uint32(p, off + 10), <<>>)}})

RECURSIVE DecodePartitions(_, _, _, _, _)
DecodePartitions(p, off, count, acc, err) ==
  IF Len(acc) = count
  THEN [panic |-> FALSE, off |-> off, v |-> acc, err |-> err]
  ELSE Only({IF r.panic THEN r
             ELSE DecodePartitions(p, r.off, count, Append(acc, r.v), r.err) :
               r \in {DecodePartition(p, off, err)}})

DecodeTopic(p, off, err) ==
  IF ~CanRead(p, off, 2) THEN PanicAt(off)
  ELSE IF ~CanRead(p, off + 2, 2) THEN PanicAt(off + 2)
  ELSE LET nameEnd == off + 4 + Uint16(p, off + 2)
       IN  IF ~CanSlice(p, off + 4, nameEnd) THEN PanicAt(off + 4)
           ELSE IF ~CanRead(p, nameEnd, 4) THEN PanicAt(nameEnd)
           ELSE Only({
             IF ps.panic THEN ps
             ELSE [panic |-> FALSE, off |-> ps.off,
                   v |-> [TopicErrorCode |-> Int16(p, off),
                          TopicName |-> Slice(p, off + 4, nameEnd),
                          PartitionMetadatas |-> ps.v],
                   err |-> ps.err] :
               ps \in {DecodePartitions(p, nameEnd + 4, Uint32(p, nameEnd), <<>>,
                                        trackError(err, Int16(p, off)))}})

RECURSIVE DecodeTopics(_, _, _, _, _)
DecodeTopics(p, off, count, acc, err) ==
  IF Len(acc) = count
  THEN [panic |-> FALSE, off |-> off, v |-> acc, err |-> err]
  ELSE Only({IF r.panic THEN r
             ELSE DecodeTopics(p, r.off, count, Append(acc, r.v), r.err) :
               r \in {DecodeTopic(p, off, err)}})

\* Go's < on strings: byte-wise lexicographic, a proper prefix is smaller.
RECURSIVE StringLess(_, _)
StringLess(x, y) ==
  IF y = <<>> THEN FALSE
  ELSE IF x = <<>> THEN TRUE
  ELSE IF Head(x) /= Head(y) THEN Head(x) < Head(y)
  ELSE StringLess(Tail(x), Tail(y))

TopicLess(x, y) == StringLess(x.TopicName, y.TopicName)
PartitionLess(x, y) == x.PartitionID < y.PartitionID

\* The less function handed to sort.Slice: by "TopicName" or by "PartitionID".
Less(by, x, y) == IF by = "TopicName" THEN TopicLess(x, y) ELSE PartitionLess(x, y)

\* sort.Slice on a slice of fewer than 12 elements is an insertion sort:
\* element i is swapped towards the front while less(j, j-1) holds.
RECURSIVE SinkLast(_, _)
SinkLast(s, by) ==
  LET n == Len(s)
  IN  IF n <= 1 THEN s
      ELSE IF Less(by, s[n], s[n - 1])
           THEN Append(SinkLast(Append(SubSeq(s, 1, n - 2), s[n]), by), s[n - 1])
           ELSE s

RECURSIVE SortSlice(_, _)
SortSlice(s, by) ==
  IF Len(s) <= 1 THEN s
  ELSE SinkLast(Append(SortSlice(SubSeq(s, 1, Len(s) - 1), by), s[Len(s)]), by)

\* A decoder that sorts the topics and leaves each topic's partitions as read.
SortTopicMetadatas_topicsOnly(ts) == SortSlice(ts, "TopicName")

\* "sort by TopicName & PartitionID"
SortTopicMetadatas(ts) ==
  LET sorted == SortSlice(ts, "TopicName")
  IN  [i \in 1..Len(sorted) |->
         [sorted[i] EXCEPT !.PartitionMetadatas = SortSlice(@, "PartitionID")]]

NilResponse ==
  [isNil |-> TRUE, CorrelationID |-> 0, Brokers |-> <<>>, TopicMetadatas |-> <<>>]

MetaPanic(off) ==
  [panic |-> TRUE, resp |-> NilResponse, err |-> NilErr, offset |-> off]

\* A length check that forgets the four bytes of the length field itself.
FrameLengthMatches_noPrefix(p) == Uint32(p, 0) = p.n

\* responseLength+4 == len(payload)
FrameLengthMatches(p) == Uint32(p, 0) + 4 = p.n

\* Everything after the length check: correlation id, brokers, topics, sort.
DecodeMetadataBody(p) ==
  IF ~CanRead(p, 4, 4) THEN MetaPanic(4)
  ELSE IF ~CanRead(p, 8, 4) THEN MetaPanic(8)
  ELSE Only({
    IF bs.panic THEN MetaPanic(bs.off)
    ELSE IF ~CanRead(p, bs.off, 4) THEN MetaPanic(bs.off)
    ELSE Only({
      IF ts.panic THEN MetaPanic(ts.off)
      ELSE [panic |-> FALSE,
            resp |-> [isNil |-> FALSE,
                      CorrelationID |-> Uint32(p, 4),
                      Brokers |-> bs.v,
                      TopicMetadatas |-> SortTopicMetadatas(ts.v)],
            err |-> ts.err,
            offset |-> ts.off] :
        ts \in {DecodeTopics(p, bs.off + 4, Uint32(p, bs.off), <<>>, NilErr)}}) :
      bs \in {DecodeBrokers(p, 12, Uint32(p, 8), <<>>)}})

\* A decoder that gives up the snapshot when it has met an error code.
NewMetadataResponse_dropOnError(payload) ==
  IF ~CanRead(payload, 0, 4) THEN MetaPanic(0)
  ELSE IF ~FrameLengthMatches(payload)
       THEN [panic |-> FALSE, resp |-> NilResponse,
             err |-> LengthMismatch(Uint32(payload, 0) + 4, payload.n),
             offset |-> 0]
  ELSE Only({IF ~r.panic /\ r.err /= NilErr
             THEN [r EXCEPT !.resp = NilResponse]
             ELSE r : r \in {DecodeMetadataBody(payload)}})

NewMetadataResponse(payload) ==
  IF ~CanRead(payload, 0, 4) THEN MetaPanic(0)
  ELSE IF ~FrameLengthMatches(payload)
       THEN [panic |-> FALSE, resp |-> NilResponse,
             err |-> LengthMismatch(Uint32(payload, 0) + 4, payload.n),
             offset |-> 0]
  ELSE DecodeMetadataBody(payload)

\* ------------------------------------------------------- DecodeFetchResponse
\* A nullable []byte: Go's nil slice is not the empty slice.
NilBytes == [isNil |-> TRUE, bytes |-> <<>>]
SomeBytes(bytes) == [isNil |-> FALSE, bytes |-> bytes]

\* The zero value of Message, which make([]Message, n) fills the set with.
ZeroMessage ==
  [Offset |-> 0, MessageSize |-> 0, Crc |-> 0, MagicByte |-> 0,
   Attributes |-> 0, Key |-> NilBytes, Value |-> NilBytes]

FetchPanic(off) == [panic |-> TRUE, off |-> off, v |-> <<>>, trace |-> <<>>]

\* A reader that takes every length below 1 as the absent value.
ReadNullableBytes_emptyIsNil(p, off) ==
  IF ~CanRead(p, off, 4) THEN FetchPanic(off)
  ELSE LET length == Int32(p, off)
       IN  IF length <= 0
           THEN [panic |-> FALSE, off |-> off + 4, v |-> NilBytes, trace |-> <<>>]
           ELSE IF ~CanSlice(p, off + 4, off + 4 + length) THEN FetchPanic(off + 4)
           ELSE [panic |-> FALSE, off |-> off + 4 + length,
                 v |-> SomeBytes(Slice(p, off + 4, off + 4 + length)),
                 trace |-> <<>>]

\* keyLength / valueLength and the bytes after it: -1 is nil, otherwise
\* make([]byte, length) and copy from payload[offset:offset+length].
ReadNullableBytes(p, off) ==
  IF ~CanRead(p, off, 4) THEN FetchPanic(off)
  ELSE LET length == Int32(p, off)
       IN  IF length = -1
           THEN [panic |-> FALSE, off |-> off + 4, v |-> NilBytes, trace |-> <<>>]
           ELSE IF length < 0 THEN FetchPanic(off + 4)
           ELSE IF ~CanSlice(p, off + 4, off + 4 + length) THEN FetchPanic(off + 4)
           ELSE [panic |-> FALSE, off |-> off + 4 + length,
                 v |-> SomeBytes(Slice(p, off + 4, off + 4 + length)),
                 trace |-> <<>>]

\* One message record.  trace notes where the cursor stood at the key's
\* length field, at the value's length field and after the message.
DecodeMessage(p, off) ==
  IF ~CanRead(p, off, 8) THEN FetchPanic(off)
  ELSE IF ~CanRead(p, off + 8, 4) THEN FetchPanic(off + 8)
  ELSE IF ~CanRead(p, off + 12, 4) THEN FetchPanic(off + 12)
  ELSE IF ~CanRead(p, off + 16, 1) THEN FetchPanic(off + 16)
  ELSE IF ~CanRead(p, off + 17, 1) THEN FetchPanic(off + 17)
  ELSE Only({
    IF key.panic THEN key
    ELSE Only({
      IF value.panic THEN value
      ELSE [panic |-> FALSE, off |-> value.off,
            v |-> [Offset |-> Int64(p, off),
                   MessageSize |-> Int32(p, off + 8),
                   Crc |-> Uint32(p, off + 12),
                   MagicByte |-> Int8(p, off + 16),
                   Attributes |-> Int8(p, off + 17),
                   Key |-> key.v,
                   Value |-> value.v],
            trace |-> <<[keyAt |-> off + 18, valueAt |-> key.off,
                         endAt |-> value.off,
                         Key |-> key.v, Value |-> value.v]>>] :
        value \in {ReadNullableBytes(p, key.off)}}) :
      key \in {ReadNullableBytes(p, off + 18)}})

ZeroMessages(n) == [i \in 1..n |-> ZeroMessage]

\* A set that is only as long as the messages read.
MessageSetOf_onlyRead(size, read) == read

\* The set made by make([]Message, size) after the loop has written the
\* messages read into its first elements: the rest are zero messages.
MessageSetOf(size, read) == read \o ZeroMessages(size - Len(read))

RECURSIVE DecodeMessageLoop(_, _, _, _, _)
\* for k := 0; k < MessageSetSize; k++ { ...; if offset == len(payload) { break } }
DecodeMessageLoop(p, off, size, acc, trace) ==
  IF Len(acc) >= size
  THEN [panic |-> FALSE, off |-> off, v |-> MessageSetOf(size, acc),
        trace |-> trace]
  ELSE Only({
    IF r.panic THEN r
    ELSE IF r.off = p.n
         THEN [panic |-> FALSE, off |-> r.off,
               v |-> MessageSetOf(size, Append(acc, r.v)),
               trace |-> trace \o r.trace]
    ELSE DecodeMessageLoop(p, r.off, size, Append(acc, r.v), trace \o r.trace) :
      r \in {DecodeMessage(p, off)}})

DecodeMessageSet(p, off, size) == DecodeMessageLoop(p, off, size, <<>>, <<>>)

DecodeTopicData(p, off) ==
  IF ~CanRead(p, off, 4) THEN FetchPanic(off)
  ELSE IF ~CanRead(p, off + 4, 2) THEN FetchPanic(off + 4)
  ELSE IF ~CanRead(p, off + 6, 8) THEN FetchPanic(off + 6)
  ELSE IF ~CanRead(p, off + 14, 4) THEN FetchPanic(off + 14)
  ELSE IF Int32(p, off + 14) < 0 THEN FetchPanic(off + 18)
  ELSE Only({
    IF ms.panic THEN ms
    ELSE [panic |-> FALSE, off |-> ms.off,
          v |-> [Partition |-> Int32(p, off),
                 ErrorCode |-> Int16(p, off + 4),
                 HighwaterMarkOffset |-> Int64(p, off + 6),
                 MessageSetSize |-> Int32(p, off + 14),
                 MessageSet |-> ms.v],
          trace |-> ms.trace] :
      ms \in {DecodeMessageSet(p, off + 18, Int32(p, off + 14))}})

RECURSIVE DecodeTopicDatas(_, _, _, _, _)
DecodeTopicDatas(p, off, count, acc, trace) ==
  IF Len(acc) = count
  THEN [panic |-> FALSE, off |-> off, v |-> acc, trace |-> trace]
  ELSE Only({IF r.panic THEN r
             ELSE DecodeTopicDatas(p, r.off, count, Append(acc, r.v),
                                   trace \o r.trace) :
               r \in {DecodeTopicData(p, off)}})

DecodeFetchTopic(p, off) ==
  IF ~CanRead(p, off, 2) THEN FetchPanic(off)
  ELSE LET nameEnd == off + 2 + Uint16(p, off)
       IN  IF ~CanSlice(p, off + 2, nameEnd) THEN FetchPanic(off + 2)
           ELSE IF ~CanRead(p, nameEnd, 4) THEN FetchPanic(nameEnd)
           ELSE Only({
             IF ds.panic THEN ds
             ELSE [panic |-> FALSE, off |-> ds.off,
                   v |-> [TopicName |-> Slice(p, off + 2, nameEnd),
                          TopicDatas |-> ds.v],
                   trace |-> ds.trace] :
               ds \in {DecodeTopicDatas(p, nameEnd + 4, Uint32(p, nameEnd),
                                        <<>>, <<>>)}})

RECURSIVE DecodeFetchTopics(_, _, _, _, _)
DecodeFetchTopics(p, off, count, acc, trace) ==
  IF Len(acc) = count
  THEN [panic |-> FALSE, off |-> off, v |-> acc, trace |-> trace]
  ELSE Only({IF r.panic THEN r
             ELSE DecodeFetchTopics(p, r.off, count, Append(acc, r.v),
                                    trace \o r.trace) :
               r \in {DecodeFetchTopic(p, off)}})

\* Returns the response and a nil error (trace: the cursor trace of the
\* messages read), or panics when a read goes out of range.
DecodeFetchResponse(payload) ==
  IF ~CanRead(payload, 0, 4)
  THEN [panic |-> TRUE, resp |-> <<>>, err |-> NilErr, trace |-> <<>>]
  ELSE Only({[panic |-> r.panic, resp |-> r.v, err |-> NilErr, trace |-> r.trace] :
               r \in {DecodeFetchTopics(payload, 4, Uint32(payload, 0), <<>>, <<>>)}})

\* ------------------------------------------------------------ configuration
\* A []int value; isNil tells Go's nil slice from an empty one.
NilInts == [isNil |-> TRUE, elems |-> <<>>]
MakeInts(elems) == [isNil |-> FALSE, elems |-> elems]

\* Go's integer division, which truncates towards zero.
GoDiv(x, y) == IF x >= 0 THEN x \div y ELSE -((-x) \div y)

\* The API keys that index the per-API timeout vector.
API_FetchRequest == 1
API_OffsetCommitRequest == 8
API_JoinGroup == 11

NilBrokerConfig ==
  [isNil |-> TRUE, ConnectTimeoutMS |-> 0, TimeoutMS |-> 0,
   TimeoutMSForEachAPI |-> NilInts, MetadataRefreshIntervalMS |-> 0]

DefaultBrokerConfig ==
  [isNil |-> FALSE, ConnectTimeoutMS |-> 60000, TimeoutMS |-> 30000,
   TimeoutMSForEachAPI |-> MakeInts(<<>>),
   MetadataRefreshIntervalMS |-> 300 * 1000]

\* The slice header is copied: b.TimeoutMSForEachAPI has c's backing array.
getBrokerConfigFromConsumerConfig(c) ==
  [DefaultBrokerConfig EXCEPT !.ConnectTimeoutMS = c.ConnectTimeoutMS,
                              !.TimeoutMS = c.TimeoutMS,
                              !.TimeoutMSForEachAPI = c.TimeoutMSForEachAPI]

\* The struct literal of DefaultConsumerConfig; TimeoutMSForEachAPI is not set.
ConsumerLiteral ==
  [isNil |-> FALSE, BootstrapServers |-> "", ClientID |-> "", GroupID |-> "",
   SessionTimeoutMS |-> 30000, RetryBackOffMS |-> 100,
   MetadataMaxAgeMS |-> 300000, FetchMaxWaitMS |-> 100,
   FetchMaxBytes |-> 10 * 1024 * 1024, FetchMinBytes |-> 1,
   FromBeginning |-> FALSE, AutoCommit |-> TRUE, CommitAfterFetch |-> FALSE,
   AutoCommitIntervalMS |-> 5000, OffsetsStorage |-> 1,
   ConnectTimeoutMS |-> 30000, TimeoutMS |-> 30000,
   TimeoutMSForEachAPI |-> NilInts]

NilConsumerConfig == [ConsumerLiteral EXCEPT !.isNil = TRUE]

\* if c.TimeoutMSForEachAPI == nil { make([]int, 38); fill; three overrides }
\* Index i of the Go slice is element i + 1 of elems.
FillTimeouts(c) ==
  IF c.TimeoutMSForEachAPI.isNil
  THEN [c EXCEPT !.TimeoutMSForEachAPI = MakeInts(
         [i \in 1..38 |->
            IF i - 1 = API_FetchRequest THEN c.TimeoutMS + c.FetchMaxWaitMS
            ELSE IF i - 1 = API_OffsetCommitRequest THEN GoDiv(c.SessionTimeoutMS, 2)
            ELSE IF i - 1 = API_JoinGroup THEN c.SessionTimeoutMS + 5000
            ELSE c.TimeoutMS])]
  ELSE c

DefaultConsumerConfig == FillTimeouts(ConsumerLiteral)

\* A value of the mapping given to GetConsumerConfig, as json.Marshal writes it.
Absent == [t |-> "absent", v |-> 0, a |-> <<>>]
JNull == [t |-> "null", v |-> 0, a |-> <<>>]
JNumber(n) == [t |-> "number", v |-> n, a |-> <<>>]
JString == [t |-> "string", v |-> 0, a |-> <<>>]
JArray(xs) == [t |-> "array", v |-> 0, a |-> xs]

\* json.Unmarshal into an integer field: a number is stored, null and a
\* missing key leave the field as it is.
UnmarshalInt(old, val) == IF val.t = "number" THEN val.v ELSE old

\* json.Unmarshal into the []int field: null makes it nil, an array replaces
\* the elements.
UnmarshalInts(old, val) ==
  IF val.t = "null" THEN NilInts
  ELSE IF val.t = "array" THEN MakeInts(val.a)
  ELSE old

\* json.Unmarshal fails on a value of the wrong JSON type.
UnmarshalFails(m) ==
  \/ m.timeout.t \in {"string", "array"}
  \/ m.session.t \in {"string", "array"}
  \/ m.wait.t \in {"string", "array"}
  \/ m.each.t \in {"string", "number"}

\* json.Unmarshal(b, c) for the keys timeout.ms, session.timeout.ms,
\* fetch.max.wait.ms and timeout.ms.for.eachapi.
Unmarshal(c, m) ==
  [c EXCEPT !.TimeoutMS = UnmarshalInt(@, m.timeout),
            !.SessionTimeoutMS = UnmarshalInt(@, m.session),
            !.FetchMaxWaitMS = UnmarshalInt(@, m.wait),
            !.TimeoutMSForEachAPI = UnmarshalInts(@, m.each)]

\* Returns the pair of the config and the error ("nil" or "json").
GetConsumerConfig(m) ==
  IF UnmarshalFails(m)
  THEN [c |-> NilConsumerConfig, err |-> "json"]
  ELSE [c |-> FillTimeouts(Unmarshal(DefaultConsumerConfig, m)), err |-> "nil"]

DefaultProducerConfig ==
  [BootstrapServers |-> "", ClientID |-> "healer", Acks |-> 1,
   CompressionType |-> "none", BatchSize |-> 16384, MessageMaxCount |-> 1024,
   FlushIntervalMS |-> 200, MetadataMaxAgeMS |-> 300000,
   FetchTopicMetaDataRetrys |-> 3, ConnectionsMaxIdleMS |-> 540000,
   Retries |-> 0, RequestTimeoutMS |-> 30000]

\* A check whose switch has no case for lz4.
ProducerCheckValid_noLz4(config) ==
  IF config.BootstrapServers = "" THEN "bootstrapServersNotSet"
  ELSE IF config.MessageMaxCount <= 0 THEN "messageMaxCountError"
  ELSE IF config.FlushIntervalMS <= 0 THEN "flushIntervalMSError"
  ELSE IF config.CompressionType \in {"none", "gzip", "snappy"} THEN "nil"
  ELSE "unknownCompressionType"

\* (config *ProducerConfig) checkValid
ProducerCheckValid(config) ==
  IF config.BootstrapServers = "" THEN "bootstrapServersNotSet"
  ELSE IF config.MessageMaxCount <= 0 THEN "messageMaxCountError"
  ELSE IF config.FlushIntervalMS <= 0 THEN "flushIntervalMSError"
  ELSE IF config.CompressionType \in {"none", "gzip", "snappy", "lz4"} THEN "nil"
  ELSE "unknownCompressionType"

\* ---------------------------------------------------------- generated inputs
\* The buffers handed to the decoders are the big-endian encodings of small
\* structured responses, as a broker writes them.
RECURSIVE Enc(_, _)
\* v in k bytes, most significant first; a negative v in two's complement.
Enc(k, v) == IF k = 0 THEN <<>> ELSE Append(Enc(k - 1, v \div 256), v % 256)

RECURSIVE Concat(_)
Concat(ss) == IF ss = <<>> THEN <<>> ELSE Head(ss) \o Concat(Tail(ss))

EncString(bytes) == Enc(2, Len(bytes)) \o bytes
EncInt32s(xs) == Enc(4, Len(xs)) \o Concat([i \in 1..Len(xs) |-> Enc(4, xs[i])])
EncNullable(x) == IF x.isNil THEN Enc(4, -1) ELSE Enc(4, Len(x.bytes)) \o x.bytes

SeqsUpTo(S, n) == UNION {[1..k -> S] : k \in 0..n}

EncBroker(b) == Enc(4, b.NodeId) \o EncString(b.Host) \o Enc(4, b.Port)

EncPartition(q) ==
  Enc(2, q.PartitionErrorCode) \o Enc(4, q.PartitionID) \o Enc(4, q.Leader)
    \o EncInt32s(q.Replicas) \o EncInt32s(q.Isr)

EncTopic(t) ==
  Enc(2, t.TopicErrorCode) \o EncString(t.TopicName)
    \o Enc(4, Len(t.PartitionMetadatas))
    \o Concat([j \in 1..Len(t.PartitionMetadatas) |->
                 EncPartition(t.PartitionMetadatas[j])])

EncMetadataBody(w) ==
  Enc(4, w.CorrelationID)
    \o Enc(4, Len(w.Brokers))
    \o Concat([i \in 1..Len(w.Brokers) |-> EncBroker(w.Brokers[i])])
    \o Enc(4, Len(w.TopicMetadatas))
    \o Concat([i \in 1..Len(w.TopicMetadatas) |-> EncTopic(w.TopicMetadatas[i])])

Broker1 == [NodeId |-> 1, Host |-> <<104, 49>>, Port |-> 9092]
Broker2 == [NodeId |-> 2, Host |-> <<>>, Port |-> 9093]

\* A partition record; partition 1 is in the middle of a leader election.
Part(code, id) ==
  [PartitionErrorCode |-> code, PartitionID |-> id,
   Leader |-> IF id = 1 THEN -1 ELSE 2,
   Replicas |-> IF id = 0 THEN <<1, 2>> ELSE <<2>>,
   Isr |-> IF id = 0 THEN <<1>> ELSE <<>>]

Topic(code, name, parts) ==
  [TopicErrorCode |-> code, TopicName |-> name, PartitionMetadatas |-> parts]

Wire(brokers, topics) ==
  [CorrelationID |-> 7, Brokers |-> brokers, TopicMetadatas |-> topics]

\* "b" and "ab": the shorter name is the greater one.
TopicNames == {<<98>>, <<97, 98>>}
PartitionIDs == {0, 1}
\* No error, the kind at registry index 9, another kind, an unknown code.
Codes == {0, 9, 3, -1}

\* Topics and partitions in every order and with repetitions, no error codes.
OrderWires ==
  {Wire(<<Broker2, Broker1>>, ts) :
     ts \in SeqsUpTo({Topic(0, nm, ps) :
                        nm \in TopicNames,
                        ps \in SeqsUpTo({Part(0, id) : id \in PartitionIDs}, MaxParts)},
                     MaxTopics)}

\* The i-th name on the wire: "z", "yy", "xxx", ... in descending order.
NameAt(i) == [j \in 1..i |-> 123 - i]

\* Every choice of topic-level codes, each topic with at most one partition.
CodeWires ==
  {Wire(<<Broker1>>,
        [i \in 1..Len(cs) |->
           Topic(cs[i].t, NameAt(i),
                 [j \in 1..Len(cs[i].ps) |-> Part(cs[i].ps[j], 0)])]) :
     cs \in SeqsUpTo([t : Codes, ps : SeqsUpTo(Codes, 1)], MaxTopics)}

\* One topic, every choice of its code and of its partitions' codes; the
\* partition ids descend on the wire.
DeepWires ==
  {Wire(<<>>, <<Topic(tc, NameAt(1),
                      [j \in 1..Len(pcs) |-> Part(pcs[j], Len(pcs) - j)])>>) :
     tc \in Codes, pcs \in SeqsUpTo(Codes, MaxParts)}

\* How the frame is built around the body:
\*   exact      the length field is the body length
\*   selfcount  the length field also counts its own four bytes
\*   short      the last byte of the buffer is missing
\*   long       one more byte follows the body
MetaInput(w, variant) ==
  LET body == EncMetadataBody(w)
      declared == IF variant = "selfcount" THEN Len(body) + 4 ELSE Len(body)
      frame == Enc(4, declared) \o body
      bytes == IF variant = "short" THEN SubSeq(frame, 1, Len(frame) - 1)
               ELSE IF variant = "long" THEN Append(frame, 0)
               ELSE frame
  IN  [wire |-> w, variant |-> variant, declared |-> declared,
       payload |-> MkSlice(bytes)]

MetaInputs ==
  {MetaInput(w, "exact") : w \in OrderWires \cup CodeWires \cup DeepWires}
    \cup {MetaInput(w, v) : w \in DeepWires, v \in {"selfcount", "short", "long"}}

NoMetaInput == MetaInput(Wire(<<>>, <<>>), "exact")

EncMessage(m) ==
  Enc(8, m.Offset) \o Enc(4, m.MessageSize) \o Enc(4, m.Crc)
    \o Enc(1, m.MagicByte) \o Enc(1, m.Attributes)
    \o EncNullable(m.Key) \o EncNullable(m.Value)

EncTopicData(d) ==
  Enc(4, d.Partition) \o Enc(2, d.ErrorCode) \o Enc(8, d.HighwaterMarkOffset)
    \o Enc(4, d.MessageSetSize)
    \o Concat([k \in 1..Len(d.msgs) |-> EncMessage(d.msgs[k])])

EncFetchTopic(t) ==
  EncString(t.TopicName) \o Enc(4, Len(t.TopicDatas))
    \o Concat([j \in 1..Len(t.TopicDatas) |-> EncTopicData(t.TopicDatas[j])])

EncFetch(w) == Enc(4, Len(w)) \o Concat([i \in 1..Len(w) |-> EncFetchTopic(w[i])])

NullableVals == {NilBytes, SomeBytes(<<>>), SomeBytes(<<7, 8>>)}

Messages ==
  {[Offset |-> 258, MessageSize |-> 300, Crc |-> 77, MagicByte |-> 1,
    Attributes |-> -1, Key |-> k, Value |-> v] :
     k \in NullableVals, v \in NullableVals}

\* A partition whose count field is size and whose buffer holds msgs.
TopicData(id, size, msgs) ==
  [Partition |-> id, ErrorCode |-> 0, HighwaterMarkOffset |-> 70000,
   MessageSetSize |-> size, msgs |-> msgs]

FetchTopic(name, datas) == [TopicName |-> name, TopicDatas |-> datas]

\* The buffer of wire w with its last cut bytes cut off.  With spare, the
\* buffer is a reslice payload[:n] of the whole one, so the bytes cut off stay
\* within its capacity; without, it is a copy of exactly n bytes.
FetchInput(w, cut, spare) ==
  LET full == EncFetch(w)
      n == Len(full) - cut
  IN  [wire |-> w, cut |-> cut, spare |-> spare,
       payload |-> [b |-> IF spare THEN full ELSE SubSeq(full, 1, n),
                    n |-> n]]

OnePartition(ms, extra) ==
  <<FetchTopic(<<116>>, <<TopicData(3, Len(ms) + extra, ms)>>)>>

\* One topic with one partition, the whole buffer: up to MaxMsgs messages
\* and a count field that is the number of messages or one more.
CompleteInputs ==
  {FetchInput(OnePartition(ms, extra), 0, FALSE) :
     ms \in SeqsUpTo(Messages, MaxMsgs), extra \in {0, 1}}

FirstMessage ==
  [Offset |-> 257, MessageSize |-> 30, Crc |-> 76, MagicByte |-> 0,
   Attributes |-> 0, Key |-> SomeBytes(<<9>>), Value |-> NilBytes]

\* One topic with one partition whose buffer has lost its last 1..MaxCut
\* bytes: every message but the last is FirstMessage.
CutInputs ==
  {FetchInput(OnePartition([k \in 1..n |-> IF k = n THEN m ELSE FirstMessage],
                           extra),
              cut, spare) :
     n \in 1..MaxMsgs, m \in Messages, extra \in {0, 1},
     cut \in 1..MaxCut, spare \in BOOLEAN}

SomeMessages ==
  {m \in Messages : m.Key /= m.Value /\ (m.Key.isNil => m.Value.bytes /= <<>>)
                                     /\ (m.Value.isNil => m.Key.bytes /= <<>>)}

\* Two topics, the first with two partitions: complete buffers.
ManyPartitionInputs ==
  {FetchInput(<<FetchTopic(<<116>>, <<TopicData(0, Len(m1), m1),
                                      TopicData(1, Len(m2), m2)>>),
                FetchTopic(<<117, 118>>, <<TopicData(0, Len(m3), m3)>>)>>,
              0, FALSE) :
     m1 \in SeqsUpTo(SomeMessages, 1), m2 \in SeqsUpTo(SomeMessages, 1),
     m3 \in SeqsUpTo(SomeMessages, 1)}

FetchInputs == CompleteInputs \cup CutInputs \cup ManyPartitionInputs

NoFetchInput == FetchInput(<<>>, 0, FALSE)

\* The mappings given to GetConsumerConfig.
Mappings ==
  [timeout : {Absent, JNumber(5000), JString},
   session : {Absent, JNumber(10001)},
   wait : {Absent, JNumber(500)},
   each : {Absent, JNull, JArray(<<1, 2>>)}]

NoMapping == [timeout |-> Absent, session |-> Absent, wait |-> Absent, each |-> Absent]

\* The entries callers write and the value they write.
WrittenIndexes == {0, API_FetchRequest}
WrittenValues == {7}

ProducerConfigs ==
  {[DefaultProducerConfig EXCEPT !.BootstrapServers = bs,
                                 !.MessageMaxCount = mc,
                                 !.FlushIntervalMS = fl,
                                 !.CompressionType = ct] :
     bs \in {"", "127.0.0.1:9092"}, mc \in {-1, 0, 1, 1024}, fl \in {-5, 0, 200},
     ct \in {"none", "gzip", "snappy", "lz4", "", "zstd", "GZIP", "lz4 "}}

\* ------------------------------------------------------------ state machine
\* mIn, fIn   the buffer given to NewMetadataResponse / DecodeFetchResponse
\* mOut, fOut what the call returned (called = FALSE before the call)
\* cc, lastCall  the *ConsumerConfig, and the last call made on the configs: op
\*            names that call and m is its mapping
\* bc         the *BrokerConfig derived from cc
\* shared     bc.TimeoutMSForEachAPI and cc.TimeoutMSForEachAPI have the same
\*            backing array
\* pc, pcErr  a ProducerConfig and what its checkValid returned
NotCalled == [called |-> FALSE]

NoCall == [op |-> "none", m |-> NoMapping, i |-> 0, err |-> "nil"]

IdleMeta == mIn = NoMetaInput /\ mOut = NotCalled
IdleFetch == fIn = NoFetchInput /\ fOut = NotCalled
IdleConfig ==
  /\ cc = NilConsumerConfig /\ lastCall = NoCall
  /\ bc = NilBrokerConfig /\ shared = FALSE
IdleProducer == pc = DefaultProducerConfig /\ pcErr = "unchecked"

metaVars == <<mIn, mOut>>
fetchVars == <<fIn, fOut>>
configVars == <<cc, lastCall, bc, shared>>
producerVars == <<pc, pcErr>>

CallNewMetadataResponse ==
  /\ ~mOut.called
  /\ mOut' = [called |-> TRUE, ret |-> NewMetadataResponse(mIn.payload)]
  /\ UNCHANGED <<mIn, fetchVars, configVars, producerVars>>

CallDecodeFetchResponse ==
  /\ ~fOut.called
  /\ fOut' = [called |-> TRUE, ret |-> DecodeFetchResponse(fIn.payload)]
  /\ UNCHANGED <<fIn, metaVars, configVars, producerVars>>

\* c := DefaultConsumerConfig(): a new config with a new vector.
CallDefaultConsumerConfig ==
  /\ cc' = DefaultConsumerConfig
  /\ lastCall' = [op |-> "DefaultConsumerConfig", m |-> NoMapping, i |-> 0,
                  err |-> "nil"]
  /\ shared' = FALSE
  /\ UNCHANGED <<bc, metaVars, fetchVars, producerVars>>

\* c, err := GetConsumerConfig(m): a new config with a new vector, or nil.
CallGetConsumerConfig ==
  \E m \in Mappings :
    LET r == GetConsumerConfig(m)
    IN  /\ cc' = r.c
        /\ lastCall' = [op |-> "GetConsumerConfig", m |-> m, i |-> 0,
                          err |-> r.err]
        /\ shared' = FALSE
        /\ UNCHANGED <<bc, metaVars, fetchVars, producerVars>>

\* b := getBrokerConfigFromConsumerConfig(c), c not nil.
CallGetBrokerConfig ==
  /\ ~cc.isNil
  /\ bc' = getBrokerConfigFromConsumerConfig(cc)
  /\ shared' = ~cc.TimeoutMSForEachAPI.isNil
  /\ lastCall' = [lastCall EXCEPT !.op = "getBrokerConfigFromConsumerConfig"]
  /\ UNCHANGED <<cc, metaVars, fetchVars, producerVars>>

\* c.TimeoutMSForEachAPI[i] = v: a store into the backing array, seen through
\* every slice that has it.
WriteConsumerEntry ==
  \E i \in WrittenIndexes, WrittenValue \in WrittenValues :
    /\ ~cc.isNil
    /\ i < Len(cc.TimeoutMSForEachAPI.elems)
    /\ cc' = [cc EXCEPT !.TimeoutMSForEachAPI.elems[i + 1] = WrittenValue]
    /\ bc' = IF shared
             THEN [bc EXCEPT !.TimeoutMSForEachAPI.elems[i + 1] = WrittenValue]
             ELSE bc
    /\ lastCall' = [lastCall EXCEPT !.op = "writeConsumer", !.i = i]
    /\ UNCHANGED <<shared, metaVars, fetchVars, producerVars>>

\* b.TimeoutMSForEachAPI[i] = v
WriteBrokerEntry ==
  \E i \in WrittenIndexes, WrittenValue \in WrittenValues :
    /\ ~bc.isNil
    /\ i < Len(bc.TimeoutMSForEachAPI.elems)
    /\ bc' = [bc EXCEPT !.TimeoutMSForEachAPI.elems[i + 1] = WrittenValue]
    /\ cc' = IF shared
             THEN [cc EXCEPT !.TimeoutMSForEachAPI.elems[i + 1] = WrittenValue]
             ELSE cc
    /\ lastCall' = [lastCall EXCEPT !.op = "writeBroker", !.i = i]
    /\ UNCHANGED <<shared, metaVars, fetchVars, producerVars>>

CallProducerCheckValid ==
  \E config \in ProducerConfigs :
    /\ pc' = config
    /\ pcErr' = ProducerCheckValid(config)
    /\ UNCHANGED <<metaVars, fetchVars, configVars>>

InitMeta == mIn \in MetaInputs /\ mOut = NotCalled
              /\ IdleFetch /\ IdleConfig /\ IdleProducer
InitFetch == fIn \in FetchInputs /\ fOut = NotCalled
               /\ IdleMeta /\ IdleConfig /\ IdleProducer
InitConfig == IdleMeta /\ IdleFetch /\ IdleConfig /\ IdleProducer

NextMeta == CallNewMetadataResponse
NextFetch == CallDecodeFetchResponse
NextConfig ==
  \/ CallDefaultConsumerConfig
  \/ CallGetConsumerConfig
  \/ CallGetBrokerConfig
  \/ WriteConsumerEntry
  \/ WriteBrokerEntry
NextProducer == CallProducerCheckValid

SpecMeta == InitMeta /\ [][NextMeta]_vars
SpecFetch == InitFetch /\ [][NextFetch]_vars
SpecConfig == InitConfig /\ [][NextConfig]_vars
SpecProducer == InitConfig /\ [][NextProducer]_vars

\* ------------------------------------------------------------------ claims
Range(f) == {f[i] : i \in DOMAIN f}

\* The multiset of the elements of a sequence.
BagOfSeq(q) == [x \in Range(q) |-> Cardinality({i \in DOMAIN q : q[i] = x})]

MetaReturned == mOut.called /\ ~mOut.ret.panic /\ ~mOut.ret.resp.isNil

\* No element is less than an earlier one / every element is greater than
\* the one before it.
Ascending(q, by) ==
  \A i, j \in DOMAIN q : i < j => ~Less(by, q[j], q[i])
StrictlyAscending(q, by) ==
  \A i, j \in DOMAIN q : i < j => Less(by, q[i], q[j])

Distinct(q) == \A i, j \in DOMAIN q : i /= j => q[i] /= q[j]
Names(ts) == [i \in DOMAIN ts |-> ts[i].TopicName]
IDs(ps) == [i \in DOMAIN ps |-> ps[i].PartitionID]

\* C1, as stated: the returned snapshot has its topics in strictly ascending
\* order of TopicName and every topic's partitions in strictly ascending
\* order of PartitionID.
C1_StrictlyAscending ==
  MetaReturned =>
    LET ts == mOut.ret.resp.TopicMetadatas
    IN  /\ StrictlyAscending(ts, "TopicName")
        /\ \A i \in DOMAIN ts :
             StrictlyAscending(ts[i].PartitionMetadatas, "PartitionID")

\* C1, amended: the topics are in ascending order of TopicName and every
\* topic's partitions in ascending order of PartitionID, whatever the order
\* on the wire; the order is strict where the wire repeats no topic name,
\* and in a topic that repeats no partition id.
C1_Ascending ==
  MetaReturned =>
    LET ts == mOut.ret.resp.TopicMetadatas
    IN  /\ Ascending(ts, "TopicName")
        /\ Distinct(Names(mIn.wire.TopicMetadatas))
             => StrictlyAscending(ts, "TopicName")
        /\ \A i \in DOMAIN ts :
             /\ Ascending(ts[i].PartitionMetadatas, "PartitionID")
             /\ Distinct(IDs(ts[i].PartitionMetadatas))
                  => StrictlyAscending(ts[i].PartitionMetadatas, "PartitionID")

\* A response whose two topics and whose partitions arrive in descending
\* order has been decoded.
C1_Witness ==
  /\ MetaReturned
  /\ Names(mIn.wire.TopicMetadatas) = <<<<98>>, <<97, 98>>>>
  /\ IDs(mIn.wire.TopicMetadatas[1].PartitionMetadatas) = <<1, 0>>
  /\ Names(mOut.ret.resp.TopicMetadatas) = <<<<97, 98>>, <<98>>>>
  /\ IDs(mOut.ret.resp.TopicMetadatas[2].PartitionMetadatas) = <<0, 1>>

\* The topic-level and partition-level codes of a response in decode order.
CodesInOrder(w) ==
  Concat([i \in DOMAIN w.TopicMetadatas |->
            <<w.TopicMetadatas[i].TopicErrorCode>>
              \o [j \in DOMAIN w.TopicMetadatas[i].PartitionMetadatas |->
                    w.TopicMetadatas[i].PartitionMetadatas[j].PartitionErrorCode]])

Benign(code) == getErrorFromErrorCode(code) = AllError(9)

\* The first element of a sequence of codes that satisfies Keep, or 0.
FirstCode(cs, Keep(_)) ==
  IF \E i \in DOMAIN cs : Keep(cs[i])
  THEN cs[CHOOSE i \in DOMAIN cs : Keep(cs[i]) /\ \A j \in 1..(i - 1) : ~Keep(cs[j])]
  ELSE 0

NonZero(code) == code /= 0
NonZeroNotBenign(code) == code /= 0 /\ ~Benign(code)

\* C2, as stated: the error is decided by the first non-zero code alone:
\* nil when there is none or when it is of the benign kind, otherwise its
\* kind.
C2_FirstNonZeroDecides ==
  MetaReturned =>
    LET first == FirstCode(CodesInOrder(mIn.wire), NonZero)
    IN  mOut.ret.err = IF first = 0 \/ Benign(first) THEN NilErr
                       ELSE getErrorFromErrorCode(first)

\* C2, amended: the error is decided by the first code, in decode order,
\* that is non-zero and not of the benign kind: nil when there is none,
\* otherwise its kind.  Codes of the benign kind are passed over wherever
\* they stand.
C2_FirstNonBenignDecides ==
  MetaReturned =>
    LET first == FirstCode(CodesInOrder(mIn.wire), NonZeroNotBenign)
    IN  mOut.ret.err = IF first = 0 THEN NilErr ELSE getErrorFromErrorCode(first)

\* A response whose first non-zero code is benign and is followed by a code
\* of another kind has been decoded, and that kind is the error.
C2_Witness ==
  /\ MetaReturned
  /\ CodesInOrder(mIn.wire) = <<9, 0, 3, -1>>
  /\ mOut.ret.err = AllError(3)

\* A topic with its partitions taken as a multiset.
TopicRecord(t) ==
  [TopicErrorCode |-> t.TopicErrorCode, TopicName |-> t.TopicName,
   partitions |-> BagOfSeq(t.PartitionMetadatas)]

TopicRecords(ts) == BagOfSeq([i \in DOMAIN ts |-> TopicRecord(ts[i])])

\* C3: a buffer that holds a complete response and passes the length check
\* is decoded to the end whatever its error codes: the snapshot is not nil,
\* has the brokers in wire order and every topic and partition record of the
\* wire with its fields unchanged, with and without a returned error.
C3_DecodesToCompletion ==
  (mOut.called /\ mIn.variant = "exact") =>
    /\ ~mOut.ret.panic
    /\ ~mOut.ret.resp.isNil
    /\ mOut.ret.resp.CorrelationID = mIn.wire.CorrelationID
    /\ mOut.ret.resp.Brokers = mIn.wire.Brokers
    /\ TopicRecords(mOut.ret.resp.TopicMetadatas)
         = TopicRecords(mIn.wire.TopicMetadatas)
    /\ mOut.ret.offset = mIn.payload.n

\* A response with an error code on its topic and two partitions has been
\* decoded with a non-nil error.
C3_Witness ==
  /\ MetaReturned
  /\ mOut.ret.err = AllError(3)
  /\ CodesInOrder(mIn.wire) = <<3, 9, -1>>
  /\ Len(mOut.ret.resp.TopicMetadatas[1].PartitionMetadatas) = 2

\* C4: a buffer whose length field plus 4 is not its length gets the length
\* mismatch error and a nil snapshot, with the cursor still at 0: nothing
\* after the length field has been read.
C4_FrameLengthMismatch ==
  (mOut.called /\ mIn.declared + 4 /= mIn.payload.n) =>
    /\ ~mOut.ret.panic
    /\ mOut.ret.resp.isNil
    /\ mOut.ret.err = LengthMismatch(mIn.declared + 4, mIn.payload.n)
    /\ mOut.ret.offset = 0

\* A buffer that has lost its last byte has been refused.
C4_Witness ==
  /\ mOut.called
  /\ mIn.variant = "short"
  /\ Len(mIn.wire.TopicMetadatas[1].PartitionMetadatas) = 2
  /\ mOut.ret.err.kind = "lengthMismatch"
  /\ mOut.ret.resp.isNil

\* The messages of a fetch response in wire order.
WireMessages(w) ==
  Concat([i \in DOMAIN w |->
            Concat([j \in DOMAIN w[i].TopicDatas |-> w[i].TopicDatas[j].msgs])])

FetchReturned == fOut.called /\ ~fOut.ret.panic

LastMessage(x) ==
  LET ms == x.wire[1].TopicDatas[1].msgs IN ms[Len(ms)]

\* One topic, one partition that holds as many messages as it declares, and
\* a buffer that ends inside the key and value fields of the last message.
CutInKeyValue(x) ==
  /\ Len(x.wire) = 1 /\ Len(x.wire[1].TopicDatas) = 1
  /\ x.cut >= 1
  /\ x.wire[1].TopicDatas[1].MessageSetSize = Len(x.wire[1].TopicDatas[1].msgs)
  /\ x.cut < 8 + Len(LastMessage(x).Key.bytes) + Len(LastMessage(x).Value.bytes)

\* C5: when the buffer ends inside the key and value fields of the last
\* message, the call does not fail: it returns a nil error and every earlier
\* message.
C5_TruncatedTailTolerated ==
  (fOut.called /\ CutInKeyValue(fIn)) =>
    /\ ~fOut.ret.panic
    /\ fOut.ret.err = NilErr
    /\ LET ms == fIn.wire[1].TopicDatas[1].msgs
           got == fOut.ret.resp[1].TopicDatas[1].MessageSet
       IN  \A k \in 1..(Len(ms) - 1) : got[k] = ms[k]

\* What the claim says of one nullable field: the length field at cursor at,
\* the decoded field x, the cursor next after it.
NullableAsClaimed(p, at, next, x) ==
  LET n == Int32(p, at)
  IN  /\ n = -1 => x.isNil /\ next = at + 4
      /\ n >= 0 => /\ ~x.isNil
                   /\ Len(x.bytes) = n
                   /\ x.bytes = SubSeq(p.b, at + 5, at + 4 + n)
                   /\ next = at + 4 + n
      /\ x.isNil => n = -1

\* C6: for the key and the value of every message read, a length field of
\* -1 gives nil and moves the cursor by 4, a length n >= 0 gives the n bytes
\* after the length field and moves the cursor by 4 + n; nil only for -1.
\* The keys and values read from a whole buffer are those written to it.
C6_NullableBytes ==
  FetchReturned =>
    /\ \A k \in DOMAIN fOut.ret.trace :
         LET e == fOut.ret.trace[k]
         IN  /\ NullableAsClaimed(fIn.payload, e.keyAt, e.valueAt, e.Key)
             /\ NullableAsClaimed(fIn.payload, e.valueAt, e.endAt, e.Value)
    /\ fIn.cut = 0 =>
         /\ Len(fOut.ret.trace) = Len(WireMessages(fIn.wire))
         /\ \A k \in DOMAIN fOut.ret.trace :
              /\ fOut.ret.trace[k].Key = WireMessages(fIn.wire)[k].Key
              /\ fOut.ret.trace[k].Value = WireMessages(fIn.wire)[k].Value

\* A message with a nil key and an empty value, and one with an empty key
\* and a two-byte value, have been read.
C6_Witness ==
  /\ FetchReturned
  /\ Len(fOut.ret.trace) = 2
  /\ fOut.ret.trace[1].Key = NilBytes
  /\ fOut.ret.trace[1].Value = SomeBytes(<<>>)
  /\ fOut.ret.trace[2].Key = SomeBytes(<<>>)
  /\ fOut.ret.trace[2].Value = SomeBytes(<<7, 8>>)

ConsumerJustBuilt ==
  /\ lastCall.op \in {"DefaultConsumerConfig", "GetConsumerConfig"}
  /\ ~cc.isNil
  /\ lastCall.m.each = Absent

\* C7: a config from DefaultConsumerConfig, or from GetConsumerConfig given
\* a mapping without timeout.ms.for.eachapi, has a vector of 38 entries made
\* from its own fields.
C7_VectorFromOwnFields ==
  ConsumerJustBuilt =>
    /\ ~cc.TimeoutMSForEachAPI.isNil
    /\ Len(cc.TimeoutMSForEachAPI.elems) = 38
    /\ \A i \in 0..37 :
         cc.TimeoutMSForEachAPI.elems[i + 1] =
           IF i = API_JoinGroup THEN cc.SessionTimeoutMS + 5000
           ELSE IF i = API_OffsetCommitRequest THEN GoDiv(cc.SessionTimeoutMS, 2)
           ELSE IF i = API_FetchRequest THEN cc.TimeoutMS + cc.FetchMaxWaitMS
           ELSE cc.TimeoutMS

CompressionTypes == {"none", "gzip", "snappy", "lz4"}

\* C8, as stated: checkValid rejects every config whose compressionType is
\* not one of the four with the unknown-compression-type error, and no
\* config whose compressionType is one of them.
C8_OtherIsUnknownCompression ==
  pcErr /= "unchecked" =>
    /\ (pc.CompressionType \in CompressionTypes
          => pcErr /= "unknownCompressionType")
    /\ (pc.CompressionType \notin CompressionTypes
          => pcErr = "unknownCompressionType")

PassesEarlierChecks(config) ==
  /\ config.BootstrapServers /= ""
  /\ config.MessageMaxCount > 0
  /\ config.FlushIntervalMS > 0

\* C8, amended: for a config with bootstrap servers set and messageMaxCount
\* and flushIntervalMS above 0, checkValid returns nil exactly when
\* compressionType is none, gzip, snappy or lz4, and the
\* unknown-compression-type error for any other string.  A config that fails
\* one of the three earlier checks gets that check's error, whatever its
\* compressionType.
C8_CompressionChecked ==
  pcErr /= "unchecked" =>
    IF PassesEarlierChecks(pc)
    THEN pcErr = IF pc.CompressionType \in CompressionTypes
                 THEN "nil" ELSE "unknownCompressionType"
    ELSE pcErr \in {"bootstrapServersNotSet", "messageMaxCountError",
                    "flushIntervalMSError"}

\* A config that passes the earlier checks has been refused for its
\* upper-case GZIP.
C8_Witness ==
  /\ PassesEarlierChecks(pc)
  /\ pc.CompressionType = "GZIP"
  /\ pcErr = "unknownCompressionType"

\* What independence asks of one step: deriving the broker config copies the
\* fields and leaves the consumer config alone, and a write to an entry of
\* one config's vector leaves the other config alone.
IndependentStep ==
  /\ (lastCall'.op = "getBrokerConfigFromConsumerConfig" =>
        /\ cc' = cc
        /\ bc'.ConnectTimeoutMS = cc.ConnectTimeoutMS
        /\ bc'.TimeoutMS = cc.TimeoutMS
        /\ bc'.TimeoutMSForEachAPI = cc.TimeoutMSForEachAPI
        /\ bc'.MetadataRefreshIntervalMS = 300000)
  /\ (lastCall'.op = "writeConsumer" => bc' = bc)
  /\ (lastCall'.op = "writeBroker" => cc' = cc)

\* C9: the broker config made from a consumer config has the consumer's
\* connect timeout, timeout and vector and the default refresh interval, the
\* call leaves the consumer config as it was, and afterwards a write to an
\* entry of either vector leaves the other config as it was.
C9_IndependentValue == [][IndependentStep]_vars

====
